---------------------------- MODULE Spec2Model ----------------------------
(***************************************************************************)
(* MP3 (MPEG-1 Layer III) frame counter of foundation-health:              *)
(* countFrames and its helpers (src/server-app/utils/mp3/count-frames.ts), *)
(* the lookup tables (constants.ts), streamUploadToDisk and the            *)
(* POST /file-upload handler (server-app/index.ts).                        *)
(*                                                                         *)
(* A file is a sequence of bytes (0..255), indexed from 1 in TLA+; file    *)
(* offsets are 0-based as in the code.                                     *)
(*                                                                         *)
(* constants.ts also carries two other copies of countFrames (lines 52-88  *)
(* without the Xing/Info skip, lines 290-332 throwing on an invalid        *)
(* header). The model follows count-frames.ts, where an invalid header     *)
(* ends the loop; the throwing copy appears below only as a mutation.      *)
(*                                                                         *)
(* open, stat, read and unlink may be rejected by the file system; such a  *)
(* rejection carries the message IOError.                                  *)
(***************************************************************************)
EXTENDS Integers, Sequences, FiniteSets, TLC

VARIABLES
    file,        \* the bytes of the file being read (the upload's temporary file)
    layout,      \* how the input was laid out (bookkeeping, never read by the code)
    pc,          \* control position of the running call or request
    size,        \* countFrames: const { size }
    position,    \* countFrames: let position
    frameCount,  \* countFrames: let frameCount
    header,      \* the last 32-bit value handed to parseFrameHeader
    frame,       \* the last value parseFrameHeader returned
    pending,     \* countFrames: the completion waiting for the finally block
    result,      \* what the finished call delivered to its caller
    handle,      \* the file handle of countFrames: "none", "open" or "closed"
    closes,      \* how many times file.close() has run
    ran,         \* the stages of countFrames that have run (bookkeeping)
    tmp,         \* the temporary file of the upload: "none", "exists" or "deleted"
    response,    \* the HTTP response of the request, once produced
    passes       \* the countFrames calls in flight at once, each with its locals

passVars == <<size, position, frameCount, header, frame>>
handleVars == <<handle, closes>>
vars == <<file, layout, pc, size, position, frameCount, header, frame,
          pending, result, handle, closes, ran, tmp, response, passes>>

-----------------------------------------------------------------------------
(* Program constants (constants.ts).                                       *)

BITRATES ==
    [i \in 0..15 |->
        CASE i = 0 -> 0     [] i = 1 -> 32   [] i = 2 -> 40   [] i = 3 -> 48
          [] i = 4 -> 56    [] i = 5 -> 64   [] i = 6 -> 80   [] i = 7 -> 96
          [] i = 8 -> 112   [] i = 9 -> 128  [] i = 10 -> 160 [] i = 11 -> 192
          [] i = 12 -> 224  [] i = 13 -> 256 [] i = 14 -> 320 [] i = 15 -> 0]

SAMPLE_RATES ==
    [i \in 0..2 |-> CASE i = 0 -> 44100 [] i = 1 -> 48000 [] i = 2 -> 32000]

FRAME_LENGTH_MULTIPLIER == 144

-----------------------------------------------------------------------------
(* JavaScript 32-bit integer operators.                                    *)

Pow2(n) == 2 ^ n

\* A 32-bit value is held as the signed integer with the same 32 bits (what
\* JavaScript's | returns), because TLC's integers are 32 bits wide.
\* The low 31 bits of x:
Low31(x) == IF x >= 0 THEN x ELSE (x + 2147483647) + 1

\* x >>> n for n in 1..31: the bits of x read as unsigned, shifted right.
Shr(x, n) ==
    IF x >= 0 THEN x \div Pow2(n)
    ELSE Low31(x) \div Pow2(n) + Pow2(31 - n)

\* a & b on non-negative operands, bit by bit.
RECURSIVE BitAnd(_, _)
BitAnd(a, b) ==
    IF a = 0 \/ b = 0 THEN 0
    ELSE (IF a % 2 = 1 /\ b % 2 = 1 THEN 1 ELSE 0)
         + 2 * BitAnd(a \div 2, b \div 2)

\* a | b on non-negative operands, bit by bit.
RECURSIVE BitOr(_, _)
BitOr(a, b) ==
    IF a = 0 THEN b
    ELSE IF b = 0 THEN a
    ELSE (IF a % 2 = 1 \/ b % 2 = 1 THEN 1 ELSE 0)
         + 2 * BitOr(a \div 2, b \div 2)

\* a << n for operands whose result stays below 2^31 (no sign wrap occurs).
Shl(a, n) == a * Pow2(n)

-----------------------------------------------------------------------------
(* parseFrameHeader (count-frames.ts 72-130).                              *)

\* The value null.
Null == [null |-> TRUE]

\* A mutation of parseFrameHeader: the bitrate and sample-rate fields are
\* read one bit too low.
parseFrameHeaderShifted(h) ==
    IF BitAnd(Shr(h, 21), 2047) # 2047 THEN Null
    ELSE IF BitAnd(Shr(h, 19), 3) # 3 THEN Null
    ELSE IF BitAnd(Shr(h, 17), 3) # 1 THEN Null
    ELSE LET bitrateIndex == BitAnd(Shr(h, 11), 15)
             sampleRateIndex == BitAnd(Shr(h, 9), 3)
         IN IF bitrateIndex = 0 \/ bitrateIndex = 15 THEN Null
            ELSE IF sampleRateIndex = 3 THEN Null
            ELSE [bitrate |-> BITRATES[bitrateIndex],
                  sampleRate |-> SAMPLE_RATES[sampleRateIndex],
                  padding |-> BitAnd(Shr(h, 9), 1)]

\* A mutation of parseFrameHeader: the layer check is left out.
parseFrameHeaderNoLayer(h) ==
    IF BitAnd(Shr(h, 21), 2047) # 2047 THEN Null
    ELSE IF BitAnd(Shr(h, 19), 3) # 3 THEN Null
    ELSE LET bitrateIndex == BitAnd(Shr(h, 12), 15)
             sampleRateIndex == BitAnd(Shr(h, 10), 3)
         IN IF bitrateIndex = 0 \/ bitrateIndex = 15 THEN Null
            ELSE IF sampleRateIndex = 3 THEN Null
            ELSE [bitrate |-> BITRATES[bitrateIndex],
                  sampleRate |-> SAMPLE_RATES[sampleRateIndex],
                  padding |-> BitAnd(Shr(h, 9), 1)]

parseFrameHeader(h) ==
    LET sync == BitAnd(Shr(h, 21), 2047)
        version == BitAnd(Shr(h, 19), 3)
        layer == BitAnd(Shr(h, 17), 3)
        bitrateIndex == BitAnd(Shr(h, 12), 15)
        sampleRateIndex == BitAnd(Shr(h, 10), 3)
        padding == BitAnd(Shr(h, 9), 1)
    IN IF sync # 2047 THEN Null
       ELSE IF version # 3 THEN Null
       ELSE IF layer # 1 THEN Null
       ELSE IF bitrateIndex = 0 \/ bitrateIndex = 15 THEN Null
       ELSE IF sampleRateIndex = 3 THEN Null
       ELSE LET bitrate == BITRATES[bitrateIndex]
                sampleRate == SAMPLE_RATES[sampleRateIndex]
            IN IF bitrate = 0 \/ sampleRate = 0 THEN Null
               ELSE [bitrate |-> bitrate, sampleRate |-> sampleRate,
                     padding |-> padding]

-----------------------------------------------------------------------------
(* Reading the file (count-frames.ts 135-142 and the file.read calls).     *)

Min(a, b) == IF a <= b THEN a ELSE b

\* file.read(buffer, 0, n, pos): the bytes actually read, fewer than n only
\* at the end of the file.
ReadAt(f, pos, n) ==
    IF pos >= Len(f) THEN <<>> ELSE SubSeq(f, pos + 1, Min(pos + n, Len(f)))

\* buffer.readUInt32BE(0), held as the signed integer with the same bits.
BigEndian32(buf) ==
    (IF buf[1] >= 128 THEN buf[1] - 256 ELSE buf[1]) * 16777216
    + buf[2] * 65536 + buf[3] * 256 + buf[4]

readUInt32BE(f, pos) ==
    LET buffer == ReadAt(f, pos, 4)
    IN IF Len(buffer) = 4 THEN BigEndian32(buffer) ELSE 0

\* A mutation of frameLength: the padding byte is left out.
frameLengthNoPadding(fr) ==
    (FRAME_LENGTH_MULTIPLIER * 1000 * fr.bitrate) \div fr.sampleRate

\* Math.floor((FRAME_LENGTH_MULTIPLIER * 1000 * bitrate) / sampleRate) + padding
frameLength(fr) ==
    (FRAME_LENGTH_MULTIPLIER * 1000 * fr.bitrate) \div fr.sampleRate + fr.padding

-----------------------------------------------------------------------------
(* skipID3Tag (count-frames.ts 200-275).                                   *)

\* A mutation of skipID3Tag: the size bytes are taken whole (8 bits each),
\* not masked to their low 7 bits.
skipID3TagUnmasked(f, pos, fileSize) ==
    IF pos + 10 > fileSize THEN pos
    ELSE LET buffer == ReadAt(f, pos, 10)
         IN IF Len(buffer) < 10 THEN pos
            ELSE IF buffer[1] # 73 \/ buffer[2] # 68 \/ buffer[3] # 51 THEN pos
            ELSE LET tagSize ==
                         BitOr(BitOr(BitOr(Shl(BitAnd(buffer[7], 127), 21),
                                           Shl(buffer[8], 14)),
                                     Shl(buffer[9], 7)),
                               buffer[10])
                     nextPosition == pos + 10 + tagSize
                 IN IF nextPosition <= fileSize THEN nextPosition ELSE fileSize

\* A mutation of skipID3Tag: the position after the tag is returned as
\* declared, without the clamp to the file size.
skipID3TagUnclamped(f, pos, fileSize) ==
    IF pos + 10 > fileSize THEN pos
    ELSE LET buffer == ReadAt(f, pos, 10)
         IN IF Len(buffer) < 10 THEN pos
            ELSE IF buffer[1] # 73 \/ buffer[2] # 68 \/ buffer[3] # 51 THEN pos
            ELSE LET tagSize ==
                         BitOr(BitOr(BitOr(Shl(BitAnd(buffer[7], 127), 21),
                                           Shl(BitAnd(buffer[8], 127), 14)),
                                     Shl(BitAnd(buffer[9], 127), 7)),
                               BitAnd(buffer[10], 127))
                 IN pos + 10 + tagSize

\* buffer[i] of the code is buffer[i + 1] here.
skipID3Tag(f, pos, fileSize) ==
    IF pos + 10 > fileSize THEN pos
    ELSE LET buffer == ReadAt(f, pos, 10)
         IN IF Len(buffer) < 10 THEN pos
            ELSE IF buffer[1] # 73 \/ buffer[2] # 68 \/ buffer[3] # 51 THEN pos
            ELSE LET tagSize ==
                         BitOr(BitOr(BitOr(Shl(BitAnd(buffer[7], 127), 21),
                                           Shl(BitAnd(buffer[8], 127), 14)),
                                     Shl(BitAnd(buffer[9], 127), 7)),
                               BitAnd(buffer[10], 127))
                     nextPosition == pos + 10 + tagSize
                 IN IF nextPosition <= fileSize THEN nextPosition ELSE fileSize

-----------------------------------------------------------------------------
(* skipXingInfoFrame (count-frames.ts 154-187).                            *)

Xing == <<88, 105, 110, 103>>
Info == <<73, 110, 102, 111>>

\* identifierBuffer.toString("ascii"), as character codes: Node's "ascii"
\* decoding clears the highest bit of every byte.
toStringAscii(buf) == [i \in 1..Len(buf) |-> BitAnd(buf[i], 127)]

skipXingInfoFrame(f, pos, fileSize) ==
    IF pos + 44 > fileSize THEN pos
    ELSE LET fr == parseFrameHeader(readUInt32BE(f, pos))
         IN IF fr = Null THEN pos
            ELSE IF frameLength(fr) <= 0 \/ pos + frameLength(fr) > fileSize
                 THEN pos
            ELSE LET identifierBuffer == ReadAt(f, pos + 36, 4)
                     identifier == toStringAscii(identifierBuffer)
                 IN IF Len(identifierBuffer) = 4
                       /\ (identifier = Xing \/ identifier = Info)
                    THEN pos + frameLength(fr)
                    ELSE pos

-----------------------------------------------------------------------------
(* Results and the state of a request that has not started.                *)

Ok(v) == [ok |-> TRUE, value |-> v]
Err(m) == [ok |-> FALSE, error |-> m]

\* The message of a rejected file-system operation (open, stat, read, unlink).
IOError == "I/O error"

IdleRequest ==
    /\ pending = Null
    /\ result = Null
    /\ handle = "none"
    /\ closes = 0
    /\ ran = {}
    /\ tmp = "none"
    /\ response = Null

-----------------------------------------------------------------------------
(* Headers handed to parseFrameHeader directly, built as the unit test's   *)
(* buildHeader builds them (count-frames.test.ts 22-52), with the low nine *)
(* bits free as well.                                                      *)

SyncValues == {2047, 2046, 1023, 0}
LowBits == {0, 511}

FieldSets ==
    [sync : SyncValues, version : 0..3, layer : 0..3, protection : 0..1,
     bitrateIndex : 0..15, sampleRateIndex : 0..3, padding : 0..1,
     low : LowBits]

\* (sync << 21) | (version << 19) | ... | (padding << 9), plus the low bits:
\* the fields occupy disjoint bits, and bit 31 set makes the value negative.
buildHeader(f) ==
    (IF f.sync >= 1024 THEN f.sync - 2048 ELSE f.sync) * 2097152
    + f.version * 524288 + f.layer * 131072
    + f.protection * 65536 + f.bitrateIndex * 4096
    + f.sampleRateIndex * 1024 + f.padding * 512 + f.low

InitHeader ==
    /\ \E f \in FieldSets :
          /\ layout = [kind |-> "header", fields |-> f]
          /\ header = buildHeader(f)
    /\ file = <<>>
    /\ pc = "parseFrameHeader"
    /\ size = 0
    /\ position = 0
    /\ frameCount = 0
    /\ frame = Null
    /\ IdleRequest
    /\ passes = <<>>

\* One direct call of parseFrameHeader(header).
ParseHeaderCall ==
    /\ pc = "parseFrameHeader"
    /\ frame' = parseFrameHeader(header)
    /\ pc' = "returned"
    /\ UNCHANGED <<file, layout, size, position, frameCount, header>>
    /\ UNCHANGED <<pending, result, handle, closes, ran, tmp, response>>
    /\ UNCHANGED passes

NextHeader == ParseHeaderCall

SpecHeader == InitHeader /\ [][NextHeader]_vars

-----------------------------------------------------------------------------
(* C7: every header with sync all ones, version MPEG-1, layer III, bitrate *)
(* index b in 1..14, sample-rate index s in 0..2 and padding bit p parses  *)
(* to exactly {bitrate: BITRATES[b], sampleRate: SAMPLE_RATES[s],          *)
(* padding: p}, whatever the protection bit and the low nine bits are, and *)
(* SAMPLE_RATES is {44100, 48000, 32000}.                                  *)

ValidFields(f) ==
    /\ f.sync = 2047
    /\ f.version = 3
    /\ f.layer = 1
    /\ f.bitrateIndex \in 1..14
    /\ f.sampleRateIndex \in 0..2

C7_ValidHeaderParses ==
    (layout.kind = "header" /\ pc = "returned" /\ ValidFields(layout.fields))
        => /\ frame = [bitrate |-> BITRATES[layout.fields.bitrateIndex],
                       sampleRate |-> SAMPLE_RATES[layout.fields.sampleRateIndex],
                       padding |-> layout.fields.padding]
           /\ frame.sampleRate =
                 (CASE layout.fields.sampleRateIndex = 0 -> 44100
                    [] layout.fields.sampleRateIndex = 1 -> 48000
                    [] layout.fields.sampleRateIndex = 2 -> 32000)
           /\ frame.bitrate > 0

\* A valid 320 kbps / 32000 Hz padded header, protection bit clear and low
\* bits set, has been parsed.
C7_Witness ==
    /\ layout.kind = "header"
    /\ pc = "returned"
    /\ ValidFields(layout.fields)
    /\ layout.fields.bitrateIndex = 14
    /\ layout.fields.sampleRateIndex = 2
    /\ layout.fields.padding = 1
    /\ layout.fields.protection = 0
    /\ layout.fields.low = 511
    /\ frame = [bitrate |-> 320, sampleRate |-> 32000, padding |-> 1]

(* C8: parseFrameHeader returns null for every header in which the sync    *)
(* field is not all ones, or the version is not MPEG-1, or the layer is    *)
(* not Layer III, or the bitrate index is 0 or 15, or the sample-rate      *)
(* index is 3, whatever the other fields are.                              *)

C8_InvalidHeaderIsNull ==
    (layout.kind = "header" /\ pc = "returned" /\ ~ValidFields(layout.fields))
        => frame = Null

\* A header wrong only in its layer field (Layer II) has been parsed.
C8_Witness ==
    /\ layout.kind = "header"
    /\ pc = "returned"
    /\ layout.fields.sync = 2047
    /\ layout.fields.version = 3
    /\ layout.fields.layer = 2
    /\ layout.fields.bitrateIndex = 9
    /\ layout.fields.sampleRateIndex = 0
    /\ frame = Null

-----------------------------------------------------------------------------
(* Direct calls of skipID3Tag(file, position, size), as the unit test      *)
(* makes them (count-frames.test.ts 60-68), on files that hold `pre`       *)
(* bytes, then the first `avail` bytes of a 10-byte tag header followed by *)
(* payload bytes.                                                          *)

Zeros(n) == [i \in 1..n |-> 0]
Fill(n, b) == [i \in 1..n |-> b]

ID3 == <<73, 68, 51>>
Identifiers == {ID3, <<73, 68, 50>>, <<73, 69, 51>>, <<105, 68, 51>>}
SizeBytes == {0, 128, 1} \X {0, 128, 1} \X {0, 128, 1} \X {0, 5, 133, 255}
Positions == 0..2
Avails == {0, 3, 9, 10, 15, 137, 148, 210}
MaxPayload == 200

TagHeader(id, ver, flags, sz) == id \o <<ver, 0, flags>> \o sz

TagCalls ==
    [kind : {"tag"}, pre : Positions, id : Identifiers, ver : {3, 255},
     flags : {0, 255}, sz : SizeBytes, avail : Avails]

TagCallFile(l) ==
    Fill(l.pre, 170)
    \o SubSeq(TagHeader(l.id, l.ver, l.flags, l.sz) \o Fill(MaxPayload, 32),
              1, l.avail)

InitTag ==
    /\ layout \in TagCalls
    /\ file = TagCallFile(layout)
    /\ pc = "skipID3Tag"
    /\ size = Len(file)
    /\ position = layout.pre
    /\ frameCount = 0
    /\ header = 0
    /\ frame = Null
    /\ IdleRequest
    /\ passes = <<>>

\* One direct call of skipID3Tag(file, position, size).
SkipID3TagCall ==
    /\ pc = "skipID3Tag"
    /\ result' = Ok(skipID3Tag(file, position, size))
    /\ pc' = "returned"
    /\ UNCHANGED <<file, layout, size, position, frameCount, header, frame>>
    /\ UNCHANGED <<pending, handle, closes, ran, tmp, response>>
    /\ UNCHANGED passes

NextTag == SkipID3TagCall

SpecTag == InitTag /\ [][NextTag]_vars

(* C9: skipID3Tag(position, size): when at least 10 bytes remain from      *)
(* position and the first 3 bytes read are 'I','D','3', it returns         *)
(* min(position + 10 + S, size) with S = (b6&0x7f)<<21 | (b7&0x7f)<<14 |   *)
(* (b8&0x7f)<<7 | (b9&0x7f), the high bit of each size byte and bytes 3-5  *)
(* being ignored; when fewer than 10 bytes remain or an identifier byte    *)
(* differs, it returns position unchanged.                                 *)

\* S by arithmetic: each size byte modulo 128, weighted 128^3, 128^2, 128, 1.
Synchsafe(sz) ==
    (sz[1] % 128) * 2097152 + (sz[2] % 128) * 16384 + (sz[3] % 128) * 128
    + (sz[4] % 128)

C9_SkipID3Tag ==
    (layout.kind = "tag" /\ pc = "returned")
        => IF layout.avail >= 10 /\ layout.id = ID3
           THEN result = Ok(Min(layout.pre + 10 + Synchsafe(layout.sz),
                                layout.pre + layout.avail))
           ELSE result = Ok(layout.pre)

\* A tag at position 2 with size bytes 0x80 0x00 0x01 0x85 (S = 133) and
\* 138 payload bytes: the call returned 2 + 10 + 133, short of the file size.
C9_Witness ==
    /\ layout.kind = "tag"
    /\ pc = "returned"
    /\ layout.pre = 2
    /\ layout.id = ID3
    /\ layout.sz = <<128, 0, 1, 133>>
    /\ layout.ver = 255
    /\ layout.avail = 148
    /\ result = Ok(145)
    /\ 145 < size

-----------------------------------------------------------------------------
(* Uploaded files: an optional tag, then up to MaxFrames frames laid back  *)
(* to back, then a tail.                                                   *)

MaxFrames == 3

\* The four bytes of a 32-bit value, most significant first.
Bytes4(h) == <<Shr(h, 24), Shr(h, 16) % 256, Shr(h, 8) % 256, Low31(h) % 256>>

\* Header fields of the frames used: 32 kbps at 48000 Hz, 32 kbps at
\* 32000 Hz padded, 128 kbps at 44100 Hz.
KindA == [bitrateIndex |-> 1, sampleRateIndex |-> 1, padding |-> 0]
KindB == [bitrateIndex |-> 1, sampleRateIndex |-> 2, padding |-> 1]
KindC == [bitrateIndex |-> 9, sampleRateIndex |-> 0, padding |-> 0]

NoMarker == <<0, 0, 0, 0>>
\* The bytes 0xD8 'i' 'n' 'g': not "Xing", the first byte has its high bit set.
XingHigh == <<216, 105, 110, 103>>

FrameSpecs ==
    {[kind |-> KindB, marker |-> NoMarker], [kind |-> KindC, marker |-> NoMarker],
     [kind |-> KindA, marker |-> Xing], [kind |-> KindB, marker |-> Info],
     [kind |-> KindC, marker |-> XingHigh]}

\* The valid header with the fields of kind k (protection bit set).
HeaderOf(k) ==
    buildHeader([sync |-> 2047, version |-> 3, layer |-> 1, protection |-> 1,
                 bitrateIndex |-> k.bitrateIndex,
                 sampleRateIndex |-> k.sampleRateIndex,
                 padding |-> k.padding, low |-> 0])

\* The bytes a frame of kind k occupies: floor(144000 * kbps / Hz) + padding.
FrameBytesLen(k) ==
    (144000 * BITRATES[k.bitrateIndex]) \div SAMPLE_RATES[k.sampleRateIndex]
    + k.padding

\* A frame: its header, 32 bytes, the 4 bytes at offset 36, the rest.
FrameBytes(fs) ==
    Bytes4(HeaderOf(fs.kind)) \o Zeros(32) \o fs.marker
    \o Zeros(FrameBytesLen(fs.kind) - 40)

RECURSIVE BodyBytes(_)
BodyBytes(body) ==
    IF body = <<>> THEN <<>>
    ELSE FrameBytes(Head(body)) \o BodyBytes(Tail(body))

Bodies == UNION {[1..k -> FrameSpecs] : k \in 0..MaxFrames}

\* Tags: none; an empty one; 5 payload bytes with high bits set in the size
\* bytes; a declared size (16384) beyond the file; a wrong identifier ("ID2").
NoTag == [present |-> FALSE, id |-> ID3, sz |-> <<0, 0, 0, 0>>, payload |-> 0]
Tags ==
    {NoTag,
     [present |-> TRUE, id |-> ID3, sz |-> <<0, 0, 0, 0>>, payload |-> 0],
     [present |-> TRUE, id |-> ID3, sz |-> <<128, 0, 0, 133>>, payload |-> 5],
     [present |-> TRUE, id |-> ID3, sz |-> <<0, 1, 0, 0>>, payload |-> 20],
     [present |-> TRUE, id |-> <<73, 68, 50>>, sz |-> <<0, 0, 0, 5>>, payload |-> 5]}

TagBytes(t) ==
    IF t.present THEN TagHeader(t.id, 3, 0, t.sz) \o Fill(t.payload, 32)
    ELSE <<>>

\* Tails: 0 or 3 trailing bytes; bytes that are no frame header ("TAG...",
\* or a header with the free-format bitrate index 0); a frame cut short.
Tails ==
    [kind : {"pad"}, n : {0, 3}, head : {<<>>}]
    \cup {[kind |-> "junk", n |-> 4, head |-> <<84, 65, 71, 0>>],
          [kind |-> "junk", n |-> 50, head |-> <<84, 65, 71, 0>>],
          [kind |-> "junk", n |-> 50, head |-> <<255, 251, 0, 0>>]}
    \cup [kind : {"trunc"}, n : {4, 60}, head : {Bytes4(HeaderOf(KindA))}]

\* Files of one or two bytes.
ShortTails == [kind : {"pad"}, n : {1, 2}, head : {<<>>}]

\* The thirteen bytes "fake mp3 data" that the endpoint's test uploads.
FakeMp3 ==
    [kind |-> "junk", n |-> 13,
     head |-> <<102, 97, 107, 101, 32, 109, 112, 51, 32, 100, 97, 116, 97>>]

TailBytes(t) ==
    IF t.kind = "pad" THEN Fill(t.n, 255)
    ELSE t.head \o Zeros(t.n - Len(t.head))

FileOf(l) == TagBytes(l.tag) \o BodyBytes(l.body) \o TailBytes(l.tail)

\* Requests: without a body, with a multipart body holding no file part, or
\* with a file part.
Requests ==
    {[kind |-> "nobody"], [kind |-> "nofile"]}
    \cup [kind : {"file"}, tag : Tags, body : Bodies, tail : Tails]
    \cup [kind : {"file"}, tag : {NoTag}, body : {<<>>},
           tail : ShortTails \cup {FakeMp3}]

-----------------------------------------------------------------------------
(* POST /file-upload (index.ts 18-29), streamUploadToDisk (count-frames.ts *)
(* 288-313) and countFrames (count-frames.ts 15-55), one action per await. *)

Init ==
    /\ layout \in Requests
    /\ file = IF layout.kind = "file" THEN FileOf(layout) ELSE <<>>
    /\ pc = "request"
    /\ size = 0
    /\ position = 0
    /\ frameCount = 0
    /\ header = 0
    /\ frame = Null
    /\ IdleRequest
    /\ passes = <<>>

\* A variant of the catch block that answers with status 500.
Reply500(msg) ==
    /\ response' = [status |-> 500, error |-> msg]
    /\ pc' = "responded"

\* catch (err) { return c.json({ error: error.message }, 400) }
Reply400(msg) ==
    /\ response' = [status |-> 400, error |-> msg]
    /\ pc' = "responded"

\* streamUploadToDisk: request.body is null, the promise rejects at once.
UploadNoBody ==
    /\ pc = "request"
    /\ layout.kind = "nobody"
    /\ Reply400("No file uploaded")
    /\ UNCHANGED <<file, layout, pending, result, ran, tmp>>
    /\ UNCHANGED <<passVars, handleVars>>
    /\ UNCHANGED passes

\* streamUploadToDisk: no "file" event is emitted, so neither resolve nor
\* reject is ever called.
UploadNoFilePart ==
    /\ pc = "request"
    /\ layout.kind = "nofile"
    /\ pc' = "awaitingUpload"
    /\ UNCHANGED <<file, layout, pending, result, ran, tmp, response>>
    /\ UNCHANGED <<passVars, handleVars>>
    /\ UNCHANGED passes

\* streamUploadToDisk: the file part is written to the temporary file and
\* the write stream finishes: resolve(filepath).
UploadFinish ==
    /\ pc = "request"
    /\ layout.kind = "file"
    /\ tmp' = "exists"
    /\ pc' = "open"
    /\ UNCHANGED <<file, layout, pending, result, ran, response>>
    /\ UNCHANGED <<passVars, handleVars>>
    /\ UNCHANGED passes

\* streamUploadToDisk: busboy or the write stream emits "error": reject. The
\* temporary file may or may not have been created by then.
UploadError ==
    /\ pc = "request"
    /\ layout.kind \in {"file", "nofile"}
    /\ \E created \in BOOLEAN :
          tmp' = IF created /\ layout.kind = "file" THEN "exists" ELSE "none"
    /\ Reply400("upload failed")
    /\ UNCHANGED <<file, layout, pending, result, ran>>
    /\ UNCHANGED <<passVars, handleVars>>
    /\ UNCHANGED passes

\* const file = await open(filePath, "r"): outside the try block, so a
\* rejection leaves countFrames without running the finally block.
Open ==
    /\ pc = "open"
    /\ \E ok \in BOOLEAN :
          IF ok
          THEN /\ handle' = "open"
               /\ pc' = "stat"
               /\ UNCHANGED <<result, response>>
          ELSE /\ result' = Err(IOError)
               /\ Reply400(IOError)
               /\ UNCHANGED handle
    /\ UNCHANGED <<file, layout, pending, closes, ran, tmp, passVars>>
    /\ UNCHANGED passes

\* A mutation of Stat: the early return sits outside the try block, so the
\* count 0 is delivered with the handle still open.
StatEarlyReturnLeaks ==
    /\ pc = "stat"
    /\ \E ok \in BOOLEAN :
          IF ok
          THEN /\ size' = Len(file)
               /\ IF size' < 4
                  THEN pending' = Ok(0) /\ result' = Ok(0) /\ pc' = "unlink"
                  ELSE pending' = pending /\ result' = result
                       /\ pc' = "skipID3Tag"
               /\ position' = 0
          ELSE /\ pending' = Err(IOError)
               /\ pc' = "close"
               /\ UNCHANGED <<size, position, result>>
    /\ UNCHANGED <<file, layout, frameCount, header, frame, ran, tmp,
                   response, handleVars>>
    /\ UNCHANGED passes

\* A mutation of Stat: the early return for a source under 4 bytes is gone.
StatNoEarlyReturn ==
    /\ pc = "stat"
    /\ size' = Len(file)
    /\ position' = 0
    /\ pc' = "skipID3Tag"
    /\ UNCHANGED pending
    /\ UNCHANGED <<file, layout, frameCount, header, frame, result, ran, tmp,
                   response, handleVars>>
    /\ UNCHANGED passes

\* const { size } = await file.stat(); if (size < 4) return 0; let position = 0
Stat ==
    /\ pc = "stat"
    /\ \E ok \in BOOLEAN :
          IF ok
          THEN /\ size' = Len(file)
               /\ IF size' < 4
                  THEN pending' = Ok(0) /\ pc' = "close"
                  ELSE pending' = pending /\ pc' = "skipID3Tag"
               /\ position' = 0
          ELSE /\ pending' = Err(IOError)
               /\ pc' = "close"
               /\ UNCHANGED <<size, position>>
    /\ UNCHANGED <<file, layout, frameCount, header, frame, result, ran, tmp,
                   response, handleVars>>
    /\ UNCHANGED passes

\* position = await skipID3Tag(file, position, size); the read may reject.
SkipID3 ==
    /\ pc = "skipID3Tag"
    /\ ran' = ran \cup {"skipID3Tag"}
    /\ \E ok \in BOOLEAN :
          IF ok \/ position + 10 > size
          THEN /\ position' = skipID3Tag(file, position, size)
               /\ pc' = "skipXingInfoFrame"
               /\ UNCHANGED pending
          ELSE /\ pending' = Err(IOError)
               /\ pc' = "close"
               /\ UNCHANGED position
    /\ UNCHANGED <<file, layout, size, frameCount, header, frame, result, tmp,
                   response, handleVars>>
    /\ UNCHANGED passes

\* A mutation of SkipXing: an invalid header at the post-tag position throws.
SkipXingThrows ==
    /\ pc = "skipXingInfoFrame"
    /\ ran' = ran \cup {"skipXingInfoFrame"}
    /\ IF position + 44 <= size
          /\ parseFrameHeader(readUInt32BE(file, position)) = Null
       THEN /\ pending' = Err("Invalid MP3 frame header while checking for Xing/Info frame")
            /\ pc' = "close"
            /\ UNCHANGED <<position, frameCount>>
       ELSE /\ position' = skipXingInfoFrame(file, position, size)
            /\ frameCount' = 0
            /\ pc' = "walk"
            /\ UNCHANGED pending
    /\ UNCHANGED <<file, layout, size, header, frame, result, tmp, response,
                   handleVars>>
    /\ UNCHANGED passes

\* position = await skipXingInfoFrame(file, position, size);
\* let frameCount = 0; a read may reject.
SkipXing ==
    /\ pc = "skipXingInfoFrame"
    /\ ran' = ran \cup {"skipXingInfoFrame"}
    /\ \E ok \in BOOLEAN :
          IF ok \/ position + 44 > size
          THEN /\ position' = skipXingInfoFrame(file, position, size)
               /\ frameCount' = 0
               /\ pc' = "walk"
               /\ UNCHANGED pending
          ELSE /\ pending' = Err(IOError)
               /\ pc' = "close"
               /\ UNCHANGED <<position, frameCount>>
    /\ UNCHANGED <<file, layout, size, header, frame, result, tmp, response,
                   handleVars>>
    /\ UNCHANGED passes

\* A mutation of walkBody: the metadata-frame skipper is applied at every
\* position, so that a frame with "Xing" or "Info" is passed over uncounted.
walkBodySkipsMetadata(f, pos, sz, count) ==
    LET h == readUInt32BE(f, pos)
        fr == parseFrameHeader(h)
    IN IF fr = Null
       THEN [next |-> "break", position |-> pos, frameCount |-> count,
             header |-> h, frame |-> fr]
       ELSE IF frameLength(fr) <= 0 \/ pos + frameLength(fr) > sz
       THEN [next |-> "break", position |-> pos, frameCount |-> count,
             header |-> h, frame |-> fr]
       ELSE IF skipXingInfoFrame(f, pos, sz) # pos
       THEN [next |-> "loop", position |-> pos + frameLength(fr),
             frameCount |-> count, header |-> h, frame |-> fr]
       ELSE [next |-> "loop", position |-> pos + frameLength(fr),
             frameCount |-> count + 1, header |-> h, frame |-> fr]

\* A mutation of walkBody: an invalid header starts the next iteration
\* (continue) instead of ending the loop.
walkBodyContinues(f, pos, sz, count) ==
    LET h == readUInt32BE(f, pos)
        fr == parseFrameHeader(h)
    IN IF fr = Null
       THEN [next |-> "loop", position |-> pos, frameCount |-> count,
             header |-> h, frame |-> fr]
       ELSE IF frameLength(fr) <= 0 \/ pos + frameLength(fr) > sz
       THEN [next |-> "break", position |-> pos, frameCount |-> count,
             header |-> h, frame |-> fr]
       ELSE [next |-> "loop", position |-> pos + frameLength(fr),
             frameCount |-> count + 1, header |-> h, frame |-> fr]

\* A mutation of walkBody: an invalid header throws instead of ending the loop.
walkBodyThrows(f, pos, sz, count) ==
    LET h == readUInt32BE(f, pos)
        fr == parseFrameHeader(h)
    IN IF fr = Null
       THEN [next |-> "throw", position |-> pos, frameCount |-> count,
             header |-> h, frame |-> fr]
       ELSE IF frameLength(fr) <= 0 \/ pos + frameLength(fr) > sz
       THEN [next |-> "break", position |-> pos, frameCount |-> count,
             header |-> h, frame |-> fr]
       ELSE [next |-> "loop", position |-> pos + frameLength(fr),
             frameCount |-> count + 1, header |-> h, frame |-> fr]

\* A mutation of walkBody: a frame running past the end of the file is counted.
walkBodyNoBound(f, pos, sz, count) ==
    LET h == readUInt32BE(f, pos)
        fr == parseFrameHeader(h)
    IN IF fr = Null
       THEN [next |-> "break", position |-> pos, frameCount |-> count,
             header |-> h, frame |-> fr]
       ELSE [next |-> "loop", position |-> pos + frameLength(fr),
             frameCount |-> count + 1, header |-> h, frame |-> fr]

\* The body of the while loop (count-frames.ts 35-48), its reads succeeding:
\* what it leaves in the locals and whether the loop goes on.
walkBody(f, pos, sz, count) ==
    LET h == readUInt32BE(f, pos)
        fr == parseFrameHeader(h)
    IN IF fr = Null
       THEN [next |-> "break", position |-> pos, frameCount |-> count,
             header |-> h, frame |-> fr]
       ELSE IF frameLength(fr) <= 0 \/ pos + frameLength(fr) > sz
       THEN [next |-> "break", position |-> pos, frameCount |-> count,
             header |-> h, frame |-> fr]
       ELSE [next |-> "loop", position |-> pos + frameLength(fr),
             frameCount |-> count + 1, header |-> h, frame |-> fr]

\* One test of the loop condition and, when it holds, one iteration; after
\* the loop, return frameCount. The read may reject.
Walk ==
    /\ pc = "walk"
    /\ ran' = ran \cup {"walk"}
    /\ IF position + 4 <= size
       THEN \E ok \in BOOLEAN :
               IF ok
               THEN LET w == walkBody(file, position, size, frameCount)
                    IN /\ position' = w.position
                       /\ frameCount' = w.frameCount
                       /\ header' = w.header
                       /\ frame' = w.frame
                       /\ pc' = IF w.next = "loop" THEN "walk" ELSE "close"
                       /\ pending' =
                             CASE w.next = "loop" -> pending
                               [] w.next = "break" -> Ok(w.frameCount)
                               [] w.next = "throw" ->
                                    Err("Invalid MP3 frame header")
               ELSE /\ pending' = Err(IOError)
                    /\ pc' = "close"
                    /\ UNCHANGED <<position, frameCount, header, frame>>
       ELSE /\ pending' = Ok(frameCount)
            /\ pc' = "close"
            /\ UNCHANGED <<position, frameCount, header, frame>>
    /\ UNCHANGED <<file, layout, size, result, tmp, response, handleVars>>
    /\ UNCHANGED passes

\* finally { await file.close() }, then the completion reaches the handler:
\* a count goes on to unlink, an error to the catch block.
Close ==
    /\ pc = "close"
    /\ handle' = "closed"
    /\ closes' = closes + 1
    /\ result' = pending
    /\ IF pending.ok
       THEN pc' = "unlink" /\ UNCHANGED response
       ELSE Reply400(pending.error)
    /\ UNCHANGED <<file, layout, pending, ran, tmp, passVars>>
    /\ UNCHANGED passes

\* await unlink(filepath); return c.json({ frameCount }). unlink may reject.
Unlink ==
    /\ pc = "unlink"
    /\ \E ok \in BOOLEAN :
          IF ok
          THEN /\ tmp' = "deleted"
               /\ response' = [status |-> 200, frameCount |-> result.value]
               /\ pc' = "responded"
          ELSE /\ Reply400(IOError)
               /\ UNCHANGED tmp
    /\ UNCHANGED <<file, layout, pending, result, ran, passVars, handleVars>>
    /\ UNCHANGED passes

Next ==
    \/ UploadNoBody
    \/ UploadNoFilePart
    \/ UploadFinish
    \/ UploadError
    \/ Open
    \/ Stat
    \/ SkipID3
    \/ SkipXing
    \/ Walk
    \/ Close
    \/ Unlink

Spec == Init /\ [][Next]_vars

-----------------------------------------------------------------------------
(* What the claims about countFrames speak of, read off the layout.        *)

IsFile == layout.kind = "file"

\* countFrames has delivered its count or its error.
Finished == result # Null

\* No open, stat or read was rejected by the file system.
NoIOError == result # Err(IOError)

\* The tag, if any, is a real one: "ID3" and exactly the declared payload.
ProperTag(t) == ~t.present \/ (t.id = ID3 /\ Synchsafe(t.sz) = t.payload)

\* The frame carries "Xing" or "Info" at offset 36.
Marked(fs) == fs.marker \in {Xing, Info}

\* The frame's bytes at offset 36, each taken modulo 128, spell a marker.
Decodes(fs) ==
    <<fs.marker[1] % 128, fs.marker[2] % 128, fs.marker[3] % 128,
      fs.marker[4] % 128>> \in {Xing, Info}

\* Where the tail starts: after the tag and the frames.
TailStart(l) == Len(TagBytes(l.tag)) + Len(BodyBytes(l.body))

\* The frames of the layout the walker reaches: all but a first frame taken
\* by the metadata-frame skipper.
Accepted(l) ==
    Len(l.body) - (IF l.body # <<>> /\ Decodes(l.body[1]) THEN 1 ELSE 0)

\* An optional tag, an optional Xing/Info frame, frames without a marker,
\* fewer than 4 trailing bytes.
WellFormed(l) ==
    /\ ProperTag(l.tag)
    /\ l.tail.kind = "pad"
    /\ \A i \in 2..Len(l.body) : ~Marked(l.body[i])

\* The N of such a source.
AudioFrames(l) ==
    Len(l.body) - (IF l.body # <<>> /\ Marked(l.body[1]) THEN 1 ELSE 0)

(* C1: for a source made of an optional ID3v2 tag, an optional Xing/Info   *)
(* frame, N frames without a Xing/Info marker laid back to back and fewer  *)
(* than 4 trailing bytes, countFrames returns exactly N.                   *)
C1_CountsFrames ==
    (Finished /\ NoIOError /\ IsFile /\ WellFormed(layout))
        => result = Ok(AudioFrames(layout))

\* What holds instead: the count is N on every such source whose first
\* frame does not spell a marker only after its high bits are cleared.
C1_UnlessHighBitMarker ==
    (Finished /\ NoIOError /\ IsFile /\ WellFormed(layout)
        /\ (layout.body # <<>> /\ Decodes(layout.body[1])
               => Marked(layout.body[1])))
        => result = Ok(AudioFrames(layout))

(* C2: a valid first frame after the tag that carries "Xing" or "Info" at  *)
(* offset 36 is not counted (the result is the number of frames after it); *)
(* with any other 4 bytes at offset 36 the frame is counted, so the result *)
(* is one greater (all the frames of the source).                          *)
C2_MetadataFrameExclusion ==
    (Finished /\ NoIOError /\ IsFile /\ ProperTag(layout.tag)
        /\ layout.body # <<>>)
        => IF Marked(layout.body[1])
           THEN result = Ok(Len(layout.body) - 1)
           ELSE result = Ok(Len(layout.body))

\* What holds instead: the first frame is excluded exactly when its bytes at
\* offset 36, high bits cleared, spell "Xing" or "Info".
C2_ExclusionAfterDecoding ==
    (Finished /\ NoIOError /\ IsFile /\ ProperTag(layout.tag)
        /\ layout.body # <<>>)
        => IF Decodes(layout.body[1])
           THEN result = Ok(Len(layout.body) - 1)
           ELSE result = Ok(Len(layout.body))

(* C3: when, after k >= 1 frames were accepted by the walker, the 4 bytes  *)
(* at the current position fail header validation, countFrames ends the    *)
(* loop there and returns k without raising an error.                      *)
C3_InvalidHeaderEndsCount ==
    (Finished /\ NoIOError /\ IsFile /\ ProperTag(layout.tag)
        /\ layout.tail.kind = "junk" /\ Accepted(layout) >= 1)
        => /\ result = Ok(Accepted(layout))
           /\ frameCount = Accepted(layout)
           /\ position = TailStart(layout)
           /\ frame = Null

\* One frame taken by the skipper, two accepted by the walker, then a
\* header with bitrate index 0: the count 2 was returned.
C3_Witness ==
    /\ IsFile
    /\ layout.tag.present
    /\ ProperTag(layout.tag)
    /\ Len(layout.body) = 3
    /\ Marked(layout.body[1])
    /\ layout.tail = [kind |-> "junk", n |-> 50, head |-> <<255, 251, 0, 0>>]
    /\ result = Ok(2)
    /\ position + 4 <= size
    /\ response # Null

(* C4: when a valid header yields a frame length that would pass the end   *)
(* of the source, countFrames raises no error, does not count that frame   *)
(* and returns the count accumulated so far.                               *)
C4_TruncatedFrameNotCounted ==
    (Finished /\ NoIOError /\ IsFile /\ ProperTag(layout.tag)
        /\ layout.tail.kind = "trunc")
        => /\ result = Ok(Accepted(layout))
           /\ position = TailStart(layout)
           /\ position + FrameBytesLen(KindA) > size

\* Two frames and then a frame cut to 60 bytes: the count 2 was returned.
C4_Witness ==
    /\ IsFile
    /\ ProperTag(layout.tag)
    /\ Len(layout.body) = 2
    /\ ~Decodes(layout.body[1])
    /\ layout.tail.kind = "trunc"
    /\ layout.tail.n = 60
    /\ result = Ok(2)
    /\ frame # Null
    /\ position + 4 <= size

(* C5: for every source of fewer than 4 bytes, the empty one included,     *)
(* countFrames returns 0 and raises no error, and runs neither tag         *)
(* detection nor metadata-frame detection nor the walker loop.             *)
C5_ShortSourceIsZero ==
    (IsFile /\ Len(file) < 4)
        => /\ ran = {}
           /\ (Finished /\ NoIOError => result = Ok(0))

\* A 3-byte source: 0 was returned and the handle closed.
C5_Witness ==
    /\ IsFile
    /\ Len(file) = 3
    /\ result = Ok(0)
    /\ handle = "closed"
    /\ ran = {}

(* C6: a source of at least 4 bytes made of a leading tag followed only by *)
(* bytes that form no parseable frame header at the post-tag position,     *)
(* fewer or more than 44 of them, makes countFrames return 0 with no       *)
(* error: the skipper leaves the position unchanged and the walker stops   *)
(* with a count of 0.                                                      *)
C6_TagOnlyIsZero ==
    (Finished /\ NoIOError /\ IsFile /\ layout.tag.present
        /\ ProperTag(layout.tag) /\ layout.body = <<>>
        /\ layout.tail.kind \in {"junk", "pad"})
        => /\ result = Ok(0)
           /\ position = TailStart(layout)
           /\ frameCount = 0

\* A tag with 5 payload bytes followed by 50 bytes that are no header.
C6_Witness ==
    /\ IsFile
    /\ layout.tag.present
    /\ layout.tag.payload = 5
    /\ layout.body = <<>>
    /\ layout.tail.kind = "junk"
    /\ layout.tail.n = 50
    /\ position = 15
    /\ position + 44 <= size
    /\ result = Ok(0)

(* C10: the temporary file of an upload has been deleted by the time the   *)
(* response is produced, whether countFrames returned a count or a step    *)
(* after the file's creation failed. Stated for the requests whose upload  *)
(* resolved and on whose file countFrames was called.                      *)
C10_TempFileDeleted ==
    (pc = "responded" /\ tmp # "none" /\ Finished) => tmp = "deleted"

\* What holds instead: the file is deleted whenever the response is a 200.
C10_DeletedOnSuccess ==
    (pc = "responded" /\ response.status = 200) => tmp = "deleted"

-----------------------------------------------------------------------------
(* The endpoint's answers.                                                 *)

Responded == pc = "responded"

\* An uploaded file of at least four bytes that does not parse as MP3: no ID3
\* tag, and no valid frame header in its first four bytes.
Unparseable ==
    /\ IsFile
    /\ ~layout.tag.present
    /\ layout.body = <<>>
    /\ layout.tail.kind = "junk"

\* C11: a POST /file-upload whose file is at least four bytes long, has no ID3
\* tag and does not begin with a valid frame header (the thirteen bytes
\* "fake mp3 data") is answered with status 400 and an error property, and
\* with no frameCount.
C11_BadFileIs400 ==
    (Responded /\ Unparseable) =>
        /\ response.status = 400
        /\ "error" \in DOMAIN response
        /\ "frameCount" \notin DOMAIN response

\* Both promises the handler awaits before unlink were fulfilled: the upload
\* (countFrames is only called after it) and countFrames.
UploadAndCountSucceeded == Finished /\ result.ok

\* C12 as claimed: the answer is 200 {frameCount: n}, n being the result of
\* countFrames, exactly when the upload and countFrames both succeeded, and
\* 400 {error} otherwise; a request without a body is answered with 400.
C12_StatusFollowsOutcome ==
    Responded =>
        /\ (response.status = 200) <=> UploadAndCountSucceeded
        /\ response.status = 200 =>
               response = [status |-> 200, frameCount |-> result.value]
        /\ response.status # 200 =>
               response.status = 400 /\ "error" \in DOMAIN response
        /\ layout.kind = "nobody" => response.status = 400

\* C12 amended: unlink is awaited inside the same try block, so the answer is
\* 200 {frameCount: n} exactly when the upload, countFrames and unlink all
\* succeeded, and 400 {error} when any of the three failed; a request
\* without a body is answered with 400.
C12_StatusFollowsOutcomeAndUnlink ==
    Responded =>
        /\ (response.status = 200) <=>
               (UploadAndCountSucceeded /\ tmp = "deleted")
        /\ response.status = 200 =>
               response = [status |-> 200, frameCount |-> result.value]
        /\ response.status # 200 =>
               response.status = 400 /\ "error" \in DOMAIN response
        /\ layout.kind = "nobody" => response.status = 400

\* The upload and the count went through with frames counted, unlink
\* rejected, and the answer is 400.
C12_Witness ==
    /\ Responded
    /\ UploadAndCountSucceeded
    /\ result.value >= 1
    /\ tmp = "exists"
    /\ response = [status |-> 400, error |-> IOError]

-----------------------------------------------------------------------------
(* Two countFrames calls in flight at once (count-frames.ts 15-55). Each   *)
(* call owns its handle and its locals size, position and frameCount; the  *)
(* event loop may run the continuation of either call after any await.     *)
(* Reads are taken to succeed here.                                        *)

Passes == {1, 2}

PassBodies ==
    {<<>>,
     <<[kind |-> KindB, marker |-> NoMarker]>>,
     <<[kind |-> KindA, marker |-> Xing], [kind |-> KindC, marker |-> NoMarker]>>,
     <<[kind |-> KindC, marker |-> NoMarker], [kind |-> KindB, marker |-> NoMarker],
       [kind |-> KindB, marker |-> Info]>>}

PassLayouts ==
    [kind : {"file"},
     tag : {NoTag,
            [present |-> TRUE, id |-> ID3, sz |-> <<128, 0, 0, 133>>,
             payload |-> 5]},
     body : PassBodies,
     tail : {[kind |-> "pad", n |-> 0, head |-> <<>>],
             [kind |-> "junk", n |-> 50, head |-> <<84, 65, 71, 0>>]}]

\* A call that has not yet run its first statement.
NewPass(f) ==
    [file |-> f, pc |-> "open", size |-> 0, position |-> 0, frameCount |-> 0,
     pending |-> Null, result |-> Null, overlapped |-> FALSE]

\* The code of countFrames from one await to the next, on the locals of one
\* call.
passStep(r) ==
    CASE r.pc = "open" -> [r EXCEPT !.pc = "stat"]
      [] r.pc = "stat" ->
            IF Len(r.file) < 4
            THEN [r EXCEPT !.size = Len(r.file), !.pending = Ok(0),
                           !.pc = "close"]
            ELSE [r EXCEPT !.size = Len(r.file), !.position = 0,
                           !.frameCount = 0, !.pc = "skipID3Tag"]
      [] r.pc = "skipID3Tag" ->
            [r EXCEPT !.position = skipID3Tag(r.file, r.position, r.size),
                      !.pc = "skipXingInfoFrame"]
      [] r.pc = "skipXingInfoFrame" ->
            [r EXCEPT !.position = skipXingInfoFrame(r.file, r.position, r.size),
                      !.pc = "walk"]
      [] r.pc = "walk" ->
            IF r.position + 4 <= r.size
            THEN LET w == walkBody(r.file, r.position, r.size, r.frameCount)
                 IN IF w.next = "loop"
                    THEN [r EXCEPT !.position = w.position,
                                   !.frameCount = w.frameCount]
                    ELSE [r EXCEPT !.pending = Ok(w.frameCount),
                                   !.pc = "close"]
            ELSE [r EXCEPT !.pending = Ok(r.frameCount), !.pc = "close"]
      [] r.pc = "close" -> [r EXCEPT !.result = r.pending, !.pc = "done"]

InFlight(r) == r.pc \notin {"open", "done"}

InitTwo ==
    /\ passes \in [Passes -> {NewPass(FileOf(l)) : l \in PassLayouts}]
    /\ layout = [kind |-> "passes"]
    /\ file = <<>>
    /\ pc = "countFrames"
    /\ size = 0
    /\ position = 0
    /\ frameCount = 0
    /\ header = 0
    /\ frame = Null
    /\ IdleRequest

\* A variant in which position is declared once at module level, so that
\* both calls read and assign the same variable.
StepPassSharedPosition(p) ==
    /\ passes[p].pc # "done"
    /\ LET stepped == passStep(passes[p])
       IN passes' =
             [q \in Passes |->
                IF q = p
                THEN [stepped EXCEPT
                        !.overlapped = @ \/ \E o \in Passes \ {p} :
                                                InFlight(passes[o])]
                ELSE [passes[q] EXCEPT !.position = stepped.position]]
    /\ UNCHANGED <<file, layout, pc, passVars, pending, result, handleVars,
                   ran, tmp, response>>

\* The event loop resumes call p and runs it up to its next await.
StepPass(p) ==
    /\ passes[p].pc # "done"
    /\ passes' =
          [passes EXCEPT
             ![p] = [passStep(@) EXCEPT
                       !.overlapped = @ \/ \E o \in Passes \ {p} :
                                               InFlight(passes[o])]]
    /\ UNCHANGED <<file, layout, pc, passVars, pending, result, handleVars,
                   ran, tmp, response>>

NextTwo == \E p \in Passes : StepPass(p)

SpecTwo == InitTwo /\ [][NextTwo]_vars

\* countFrames run alone, from its first statement to its return.
RECURSIVE walkAlone(_, _, _, _)
walkAlone(f, pos, sz, count) ==
    IF pos + 4 <= sz
    THEN LET w == walkBody(f, pos, sz, count)
         IN IF w.next = "loop"
            THEN walkAlone(f, w.position, sz, w.frameCount)
            ELSE w.frameCount
    ELSE count

countFramesAlone(f) ==
    IF Len(f) < 4 THEN 0
    ELSE walkAlone(f, skipXingInfoFrame(f, skipID3Tag(f, 0, Len(f)), Len(f)),
                   Len(f), 0)

\* C13: when two countFrames calls run with their await steps interleaved in
\* any order, on the same file or on different files, each call returns the
\* count it returns when run alone.
C13_InterleavedPassesAgree ==
    \A p \in Passes :
        passes[p].pc = "done" =>
            passes[p].result = Ok(countFramesAlone(passes[p].file))

\* Both calls returned, each ran steps while the other was in flight, and
\* they counted 3 frames and 1 frame.
C13_Witness ==
    /\ \A p \in Passes : passes[p].pc = "done" /\ passes[p].overlapped
    /\ passes[1].result = Ok(3)
    /\ passes[2].result = Ok(1)

-----------------------------------------------------------------------------
(* The walker after the metadata-frame skipper.                            *)

\* Some frame after the first carries "Xing" or "Info" at offset 36.
LaterMarked(l) == \E i \in 2..Len(l.body) : Marked(l.body[i])

\* C14: the metadata-frame skipper is applied once, at the position right
\* after the tag; a valid frame with "Xing" or "Info" at offset 36 at any
\* later position, the frame right after an excluded metadata frame
\* included, is counted by the walker: the count is the number of frames
\* less the one frame the skipper took, if it took one.
C14_LaterMarkedFramesCounted ==
    (Finished /\ NoIOError /\ IsFile /\ ProperTag(layout.tag)
        /\ LaterMarked(layout))
        => result = Ok(Accepted(layout))

\* A "Xing" frame was excluded, the "Info" frame right after it and a third
\* frame were counted.
C14_Witness ==
    /\ Finished
    /\ IsFile
    /\ Len(layout.body) = 3
    /\ layout.body[1].marker = Xing
    /\ layout.body[2].marker = Info
    /\ "skipXingInfoFrame" \in ran
    /\ result = Ok(2)

\* The length the header at offset pos declares, read off its third byte:
\* bitrate index in bits 7-4, sample-rate index in bits 3-2, padding in bit 1.
DeclaredLength(f, pos) ==
    LET b == f[pos + 3]
    IN (144000 * BITRATES[b \div 16]) \div SAMPLE_RATES[(b \div 4) % 4]
       + ((b \div 2) % 2)

\* A step of the skipper or of the walker that passes over a frame.
FrameTaken ==
    /\ pc \in {"skipXingInfoFrame", "walk"}
    /\ position' # position \/ frameCount' # frameCount

\* C15: for every frame the walker accepts, and for the metadata frame the
\* skipper passes over, the length by which the position advances is
\* floor(144000 * bitrateKbps / sampleRateHz) + padding (417 for 128 kbps at
\* 44100 Hz without padding, 418 with padding), it is positive, and the
\* frame ends within the source: position + length <= size at its start.
C15_FrameLengthRule ==
    [][/\ frameLength([bitrate |-> 128, sampleRate |-> 44100, padding |-> 0]) = 417
       /\ frameLength([bitrate |-> 128, sampleRate |-> 44100, padding |-> 1]) = 418
       /\ FrameTaken =>
             /\ position' - position = DeclaredLength(file, position)
             /\ position' - position > 0
             /\ position + DeclaredLength(file, position) <= size]_vars

\* The walker has just accepted a frame of 128 kbps at 44100 Hz and moved
\* on by its 417 bytes.
C15_Witness ==
    /\ pc = "walk"
    /\ frameCount >= 1
    /\ frame = [bitrate |-> 128, sampleRate |-> 44100, padding |-> 0]
    /\ position >= 417
    /\ position <= size

\* C16: in every state of a pass, from the open of the file on, position is
\* an integer with 0 <= position <= size, and no step decreases it: not the
\* tag skip (also when the declared tag size is clamped to the file size),
\* not the metadata-frame skip, not an iteration of the walker.
C16_PositionBoundedMonotonic ==
    /\ [](handle # "none" => position \in Nat /\ position <= size)
    /\ [][position' >= position]_vars

\* The tag declared 16384 bytes in a shorter file: the position was clamped
\* to the size and stayed there to the end of the pass.
C16_Witness ==
    /\ Finished
    /\ IsFile
    /\ layout.tag.present
    /\ layout.tag.sz = <<0, 1, 0, 0>>
    /\ layout.body # <<>>
    /\ "walk" \in ran
    /\ position = size
    /\ result = Ok(0)

-----------------------------------------------------------------------------
(* Progress of countFrames.                                                *)

\* The statements of countFrames in the order control passes them; 6 is any
\* position after its finally block.
Stage(p) ==
    CASE p = "open" -> 0
      [] p = "stat" -> 1
      [] p = "skipID3Tag" -> 2
      [] p = "skipXingInfoFrame" -> 3
      [] p = "walk" -> 4
      [] p = "close" -> 5
      [] OTHER -> 6

InCountFrames == Stage(pc) < 6

\* A step of countFrames moves on to a later statement, or is an iteration
\* of the walker that moves the position forward, within the size.
CountFramesProgress ==
    InCountFrames =>
        \/ Stage(pc') > Stage(pc)
        \/ /\ pc = "walk"
           /\ pc' = "walk"
           /\ position' > position
           /\ position' <= size

\* C17: countFrames terminates on every finite source: each iteration of the
\* walker either leaves the loop or strictly increases the position, which
\* the size bounds; every other step moves on to a later statement, and a
\* call that has not yet delivered its count or error can always take its
\* next step.
C17_CountFramesTerminates ==
    /\ [][CountFramesProgress]_vars
    /\ [](InCountFrames => ENABLED Next)

\* The walker went three times round the loop and the call returned 3.
C17_Witness ==
    /\ Finished
    /\ "walk" \in ran
    /\ frameCount = 3
    /\ position > 0
    /\ result = Ok(3)

-----------------------------------------------------------------------------
(* The file handle of countFrames.                                         *)

\* C18: once countFrames has opened the file, the handle is closed exactly
\* once before the call's count or error is delivered, on every way out:
\* the early return of 0, the return after the loop, and an error from
\* stat, from a read or from the processing of a header. close never runs
\* twice, and never without an open handle.
C18_HandleClosedOnce ==
    /\ closes <= 1
    /\ handle = "none" => closes = 0
    /\ handle = "open" => closes = 0 /\ ~Finished
    /\ handle = "closed" => closes = 1
    /\ (Finished /\ handle # "none") => handle = "closed" /\ closes = 1

\* A read inside the walker was rejected after a frame had been counted: the
\* error was delivered with the handle closed once.
C18_Witness ==
    /\ result = Err(IOError)
    /\ "walk" \in ran
    /\ frameCount >= 1
    /\ handle = "closed"
    /\ closes = 1

-----------------------------------------------------------------------------
(* The request as a whole.                                                 *)

\* C19: every POST /file-upload eventually receives a response, the request
\* whose multipart body holds no file part included: a request without a
\* response is never left with no step to take, that is, the promise of
\* streamUploadToDisk settles and every later await does too.
C19_EveryRequestAnswered == Responded \/ ENABLED Next


=============================================================================
